---- MODULE Spec2Model ----
(***************************************************************************)
(* Recurrence engine and submission workflow of slack-scheduler.           *)
(*                                                                         *)
(* A time.Time is modelled as the instant it denotes, in whole seconds     *)
(* since 1970-01-01 00:00:00 of the local zone.  LocalTZ is taken to be a  *)
(* zone with a fixed offset (no daylight-saving transitions), so the civil *)
(* fields of an instant are a pure function of it.  The calendar           *)
(* conversions are computed in both directions the way Go's time package   *)
(* computes them: Date() builds an instant from (possibly overflowing)     *)
(* civil fields, and Year/Month/Day/Weekday read them back.                *)
(***************************************************************************)
EXTENDS Integers, Sequences, FiniteSets, TLC

VARIABLES
    config,        \* *types.ScheduleConfig of the scheduler
    pc,            \* position inside CalculateScheduleTimes / Schedule
    start,         \* startDateTime
    endDate,       \* endDateTime: <<>> is nil, <<t>> points at t
    current,       \* loop local of the calculate*Times functions
    count,         \* loop local of the calculate*Times functions
    times,         \* []time.Time built / returned by CalculateScheduleTimes
    err,           \* error returned by CalculateScheduleTimes ("" is nil)
    now,           \* time.Now() read by Schedule, <<>> before it is read
    idx,           \* position of Schedule's range loop in times
    scheduledIDs,  \* ids returned by Schedule
    remote,        \* post times accepted by the Slack API, in call order
    schedErr,      \* error returned by Schedule ("" is nil)
    output,        \* lines Schedule and the client printed, in order
    index,         \* argument of generateGroupLabel
    index2,        \* argument of a second generateGroupLabel call
    label,         \* label generated from index, or typed by the user
    label2,        \* label generated from index2
    parsed,        \* (int, bool) returned by parseGroupLabel(label)
    deleteAll,     \* the --all flag of the delete command
    args,          \* the tokens given to the delete command
    messages,      \* []slack.ScheduledMessage returned by the Slack API
    indexed,       \* []*IndexedMessage built by buildIndexedMessages
    groups,        \* []*MessageGroup built by groupMessages
    pos,           \* position of runDelete's current range loop
    toDelete,      \* map[int]*IndexedMessage of runDelete
    sortedMsgs,    \* targets of runDelete ordered by Index
    deleted,       \* count of successful deletions
    attempts,      \* DeleteScheduledMessage calls made, in call order
    delErr,        \* error returned by runDelete ("" is nil)
    report,        \* what runSchedule returns and prints
    listChannel,   \* the --channel filter of runList
    listed         \* what runList displayed: its indexed messages and groups

labelVars == <<index, index2, label, label2, parsed>>
deleteVars == <<deleteAll, args, messages, indexed, groups, pos, toDelete,
                sortedMsgs, deleted, attempts, delErr>>
cmdVars == <<report, listChannel, listed>>
addrVars == <<labelVars, deleteVars, cmdVars>>

vars == <<config, pc, start, endDate, current, count, times, err,
          now, idx, scheduledIDs, remote, schedErr, output, addrVars>>

calcVars == <<start, endDate, current, count, times, err>>
schedVars == <<now, idx, scheduledIDs, remote, schedErr, output>>

-----------------------------------------------------------------------------
(* Calendar arithmetic of package time                                     *)

secondsPerDay == 24 * 60 * 60

isLeap(year) == year % 4 = 0 /\ (year % 100 # 0 \/ year % 400 = 0)

\* daysBefore[m]: days of a non-leap year before month m+1 (m = 0..12)
daysBefore == <<0, 31, 59, 90, 120, 151, 181, 212, 243, 273, 304, 334, 365>>

daysIn(month, year) ==
    IF month = 2 /\ isLeap(year) THEN 29
    ELSE daysBefore[month + 1] - daysBefore[month]

\* days from 1970-01-01 to January 1 of year
daysSinceEpoch(year) ==
    LET y == year - 1
    IN  365 * y + (y \div 4) - (y \div 100) + (y \div 400) - 719162

\* time.Date(year, month, day, hour, min, sec, 0, LocalTZ): month and day may
\* lie outside their usual ranges and are normalised by the conversion.
Date(year, month, day, hour, min, sec) ==
    LET m0 == month - 1
        y  == year + (m0 \div 12)
        m  == (m0 % 12) + 1
        d  == daysSinceEpoch(y) + daysBefore[m]
              + (IF isLeap(y) /\ m >= 3 THEN 1 ELSE 0) + (day - 1)
    IN  d * secondsPerDay + hour * 3600 + min * 60 + sec

\* t.Date(): the civil date of an instant, as [year, month, day]
civil(t) ==
    LET z   == (t \div secondsPerDay) + 719468
        era == z \div 146097
        doe == z - era * 146097
        yoe == (doe - (doe \div 1460) + (doe \div 36524) - (doe \div 146096)) \div 365
        doy == doe - (365 * yoe + (yoe \div 4) - (yoe \div 100))
        mp  == (5 * doy + 2) \div 153
        d   == doy - ((153 * mp + 2) \div 5) + 1
        m   == IF mp < 10 THEN mp + 3 ELSE mp - 9
        y   == yoe + era * 400 + (IF m <= 2 THEN 1 ELSE 0)
    IN  [year |-> y, month |-> m, day |-> d]

Year(t)   == civil(t).year
Month(t)  == civil(t).month
Day(t)    == civil(t).day
Hour(t)   == (t % secondsPerDay) \div 3600
Minute(t) == (t % 3600) \div 60
Second(t) == t % 60

\* t.Weekday(): 0 = Sunday .. 6 = Saturday (1970-01-01 was a Thursday)
Weekday(t) == ((t \div secondsPerDay) + 4) % 7

\* t.AddDate(years, months, days)
AddDate(t, years, months, days) ==
    Date(Year(t) + years, Month(t) + months, Day(t) + days,
         Hour(t), Minute(t), Second(t))

After(t, u)  == t > u

\* fault: Before that also holds of equal instants
mutBefore(t, u) == t <= u

Before(t, u) == t < u

-----------------------------------------------------------------------------
(* time.ParseInLocation for the two layouts the scheduler uses             *)

digits == "0123456789"

isDigit(s, i) == i <= Len(s) /\ \E d \in 1..10 : SubSeq(s, i, i) = SubSeq(digits, d, d)

digitVal(s, i) == (CHOOSE d \in 1..10 : SubSeq(s, i, i) = SubSeq(digits, d, d)) - 1

\* getnum(s, fixed = true): exactly two digits at i, i+1
getnum2ok(s, i) == isDigit(s, i) /\ isDigit(s, i + 1)
getnum2(s, i)   == digitVal(s, i) * 10 + digitVal(s, i + 1)

\* the "2006-01-02" prefix of a value: positions 1..10
dateShapeOk(s) ==
    /\ Len(s) >= 10
    /\ \A i \in {1, 2, 3, 4} : isDigit(s, i)
    /\ SubSeq(s, 5, 5) = "-"
    /\ getnum2ok(s, 6)
    /\ SubSeq(s, 8, 8) = "-"
    /\ getnum2ok(s, 9)

dateYear(s)  == digitVal(s, 1) * 1000 + digitVal(s, 2) * 100 + getnum2(s, 3)
dateMonth(s) == getnum2(s, 6)
dateDay(s)   == getnum2(s, 9)

dateRangeOk(s) ==
    /\ dateMonth(s) >= 1 /\ dateMonth(s) <= 12
    /\ dateDay(s) >= 1 /\ dateDay(s) <= daysIn(dateMonth(s), dateYear(s))

\* time.ParseInLocation("2006-01-02", s, LocalTZ) as [ok, t]
parseDate(s) ==
    IF dateShapeOk(s) /\ Len(s) = 10 /\ dateRangeOk(s)
    THEN [ok |-> TRUE, t |-> Date(dateYear(s), dateMonth(s), dateDay(s), 0, 0, 0)]
    ELSE [ok |-> FALSE, t |-> 0]

\* the " 15:04" suffix starting at position 11: the hour takes one or two
\* digits (getnum with fixed = false), the minute exactly two
hourLen(s) == IF isDigit(s, 13) THEN 2 ELSE 1
clockHour(s) ==
    IF hourLen(s) = 2 THEN getnum2(s, 12) ELSE digitVal(s, 12)
clockShapeOk(s) ==
    /\ SubSeq(s, 11, 11) = " "
    /\ isDigit(s, 12)
    /\ SubSeq(s, 12 + hourLen(s), 12 + hourLen(s)) = ":"
    /\ getnum2ok(s, 13 + hourLen(s))
    /\ Len(s) = 14 + hourLen(s)
clockMinute(s) == getnum2(s, 13 + hourLen(s))

\* Scheduler.parseDateTime(date, timeStr) as [ok, t]
parseDateTime(date, timeStr) ==
    LET s == date \o " " \o timeStr
    IN  IF /\ dateShapeOk(s)
           /\ clockShapeOk(s)
           /\ clockHour(s) < 24
           /\ clockMinute(s) < 60
           /\ dateRangeOk(s)
        THEN [ok |-> TRUE,
              t  |-> Date(dateYear(s), dateMonth(s), dateDay(s),
                          clockHour(s), clockMinute(s), 0)]
        ELSE [ok |-> FALSE, t |-> 0]

\* t.Format("2006-01-02")
pad2(n) == SubSeq(digits, (n \div 10) + 1, (n \div 10) + 1)
           \o SubSeq(digits, (n % 10) + 1, (n % 10) + 1)
formatDate(t) ==
    pad2(Year(t) \div 100) \o pad2(Year(t) % 100) \o "-" \o pad2(Month(t))
        \o "-" \o pad2(Day(t))

-----------------------------------------------------------------------------
(* internal/types: intervals and days of week                              *)

IntervalNone    == "none"
IntervalDaily   == "daily"
IntervalWeekly  == "weekly"
IntervalMonthly == "monthly"

\* fault: weekdays numbered from Monday = 0 instead of Sunday = 0
mutDayMap(d) ==
    CASE d = "monday"    -> 0
      [] d = "tuesday"   -> 1
      [] d = "wednesday" -> 2
      [] d = "thursday"  -> 3
      [] d = "friday"    -> 4
      [] d = "saturday"  -> 5
      [] d = "sunday"    -> 6
      [] OTHER           -> 0

\* dayMap of calculateSpecificDaysTimes: DayOfWeek -> time.Weekday
dayMap(d) ==
    CASE d = "sunday"    -> 0
      [] d = "monday"    -> 1
      [] d = "tuesday"   -> 2
      [] d = "wednesday" -> 3
      [] d = "thursday"  -> 4
      [] d = "friday"    -> 5
      [] d = "saturday"  -> 6
      [] OTHER           -> 0

\* targetDays of calculateSpecificDaysTimes, as the set of its true keys
targetDays(days) == {dayMap(days[i]) : i \in 1..Len(days)}

-----------------------------------------------------------------------------
(* Requests                                                                *)

MaxCount == 6        \* repeat counts range over -1..MaxCount
MaxEndOffset == 9    \* end dates range up to this many days after the anchor
HugeCount == 4000    \* a repeat count beyond every safety ceiling

StartDates == {"2025-01-13", "2025-01-31", "2024-02-28", "01-15-2025", "2025-02-30"}
SendTimes  == {"09:00", "23:59", "9:00 AM"}
Intervals  == {IntervalNone, IntervalDaily, IntervalWeekly, IntervalMonthly, "yearly"}
DaySets    == {<<>>, <<"monday", "wednesday", "friday">>, <<"friday">>,
               <<"tuesday", "thursday">>}

\* end dates of a request anchored at date: absent, unparseable, the day
\* before the anchor, and days up to MaxEndOffset after it, then some months on
EndDatesFor(date) ==
    LET a == parseDate(date)
    IN  {"", "invalid-date"} \cup
        (IF a.ok
         THEN {formatDate(AddDate(a.t, 0, 0, k)) : k \in {-1, 0, 2, MaxEndOffset}}
              \cup {formatDate(AddDate(a.t, 0, 2, 1))}
         ELSE {})

Config(sd, st, iv, rc, ed, ds) ==
    [StartDate |-> sd, SendTime |-> st, Interval |-> iv,
     RepeatCount |-> rc, EndDate |-> ed, Days |-> ds]

\* requests whose repeat count no ceiling can satisfy
CeilingRequests ==
    {Config("2025-01-13", "09:00", c[1], HugeCount, "", c[2]) :
        c \in {<<IntervalDaily, <<>> >>, <<IntervalWeekly, <<>> >>,
                <<IntervalWeekly, <<"friday">> >>, <<IntervalMonthly, <<>> >>}}
    \cup {Config("2025-01-31", "09:00", IntervalMonthly, HugeCount, "", <<>>)}

Requests ==
    UNION {{Config(sd, st, iv, rc, ed, ds) :
              st \in SendTimes, iv \in Intervals, rc \in -1..MaxCount,
              ed \in EndDatesFor(sd), ds \in DaySets} : sd \in StartDates}
    \cup CeilingRequests

\* requests of the submission workflow
ScheduleRequests ==
    {Config(sd, "09:00", iv, rc, ed, ds) :
        sd \in {"2025-01-13"}, iv \in Intervals, rc \in -1..MaxCount,
        ed \in {"", "2025-01-12", "2025-01-22", "2025-03-14", "invalid-date"},
        ds \in {<<>>, <<"monday", "wednesday", "friday">>}}
    \cup {Config("01-15-2025", "09:00", IntervalDaily, 2, "", <<>>)}

\* the instants time.Now() may return
NowChoices ==
    {Date(2025, 1, 13, 9, 0, 0), Date(2025, 1, 13, 9, 0, 1),
     Date(2025, 1, 15, 0, 0, 0), Date(2024, 9, 15, 9, 0, 0),
     Date(2024, 9, 15, 8, 59, 59), Date(2024, 9, 17, 9, 0, 0),
     Date(2024, 11, 1, 12, 0, 0)}

-----------------------------------------------------------------------------
(* Scheduler.CalculateScheduleTimes                                        *)

\* return from CalculateScheduleTimes with (ts, e)
Return(ts, e) ==
    /\ times' = ts
    /\ err' = e
    /\ pc' = "returned"

\* the prologue of the four calculate*Times functions: current := start,
\* count := RepeatCount, defaulted to 1 when there is neither bound
\* fault: no default count (calculateSpecificDaysTimes of the older copy
\* of the scheduler, which has no such default)
mutSpecificDaysCount(end) == config.RepeatCount

dailyCount(end)        == IF end = <<>> /\ config.RepeatCount <= 0 THEN 1 ELSE config.RepeatCount
weeklyCount(end)       == IF end = <<>> /\ config.RepeatCount <= 0 THEN 1 ELSE config.RepeatCount
specificDaysCount(end) == IF end = <<>> /\ config.RepeatCount <= 0 THEN 1 ELSE config.RepeatCount
monthlyCount(end)      == IF end = <<>> /\ config.RepeatCount <= 0 THEN 1 ELSE config.RepeatCount

\* fault: the end date taken at midnight instead of 23:59:59
mutEndOfDay(end) == Date(Year(end), Month(end), Day(end), 0, 0, 0)

\* endOfDay := time.Date(end.Year(), end.Month(), end.Day(), 23, 59, 59, 0, LocalTZ)
endOfDay(end) == Date(Year(end), Month(end), Day(end), 23, 59, 59)

\* fault: the end date left unparsed for a single message
mutEndDateSupplied == config.EndDate # "" /\ config.Interval # IntervalNone

\* if s.config.EndDate != ""
endDateSupplied == config.EndDate # ""

\* fault: the single message made subject to the end date
mutSingleTimes(s, end) == IF end # <<>> /\ After(s, end[1]) THEN <<>> ELSE <<s>>

\* case types.IntervalNone: times = append(times, startDateTime)
singleTimes(s, end) == <<s>>

\* fault: the loop entered with current one day before the anchor
mutEnterLoop(where, s, e, c) ==
    /\ start' = s
    /\ endDate' = e
    /\ current' = AddDate(s, 0, 0, -1)
    /\ count' = c
    /\ times' = <<>>
    /\ err' = ""
    /\ pc' = where

\* enter a calculate*Times function at the head of its loop
EnterLoop(where, s, e, c) ==
    /\ start' = s
    /\ endDate' = e
    /\ current' = s
    /\ count' = c
    /\ times' = <<>>
    /\ err' = ""
    /\ pc' = where

\* CalculateScheduleTimes up to the call of a calculate*Times function
CalculateScheduleTimes ==
    /\ pc = "call"
    /\ \E s \in {parseDateTime(config.StartDate, config.SendTime)},
          e \in {parseDate(config.EndDate)} :
       \E end \in {IF endDateSupplied THEN <<endOfDay(e.t)>> ELSE <<>>} :
           IF ~s.ok
           THEN Return(<<>>, "failed to parse date/time")
                /\ UNCHANGED <<start, endDate, current, count>>
           ELSE IF endDateSupplied /\ ~e.ok
           THEN Return(<<>>, "failed to parse end date")
                /\ start' = s.t /\ UNCHANGED <<endDate, current, count>>
           ELSE CASE config.Interval = IntervalNone ->
                       Return(singleTimes(s.t, end), "")
                       /\ start' = s.t /\ endDate' = end
                       /\ UNCHANGED <<current, count>>
                  [] config.Interval = IntervalDaily ->
                       EnterLoop("daily", s.t, end, dailyCount(end))
                  [] config.Interval = IntervalWeekly /\ Len(config.Days) > 0 ->
                       EnterLoop("specificDays", s.t, end, specificDaysCount(end))
                  [] config.Interval = IntervalWeekly /\ Len(config.Days) = 0 ->
                       EnterLoop("weekly", s.t, end, weeklyCount(end))
                  [] config.Interval = IntervalMonthly ->
                       EnterLoop("monthly", s.t, end, monthlyCount(end))
                  [] OTHER ->
                       Return(<<>>, "invalid interval")
                       /\ start' = s.t /\ endDate' = end
                       /\ UNCHANGED <<current, count>>
    /\ UNCHANGED <<addrVars, config, schedVars>>

\* fault: the count limit compared with > instead of >=
mutIterateOffByOne(next, limit) ==
    IF endDate # <<>> /\ After(current, endDate[1])
    THEN Return(times, "") /\ UNCHANGED current
    ELSE LET appended == Append(times, current)
         IN  IF count > 0 /\ Len(appended) > count
             THEN Return(appended, "") /\ UNCHANGED current
             ELSE /\ current' = next
                  /\ IF endDate = <<>> /\ After(next, limit)
                     THEN Return(appended, "")
                     ELSE times' = appended /\ UNCHANGED <<pc, err>>

\* fault: the count limit ignored once an end date is set
mutIterateEndDateOnly(next, limit) ==
    IF endDate # <<>> /\ After(current, endDate[1])
    THEN Return(times, "") /\ UNCHANGED current
    ELSE LET appended == Append(times, current)
         IN  IF endDate = <<>> /\ count > 0 /\ Len(appended) >= count
             THEN Return(appended, "") /\ UNCHANGED current
             ELSE /\ current' = next
                  /\ IF endDate = <<>> /\ After(next, limit)
                     THEN Return(appended, "")
                     ELSE times' = appended /\ UNCHANGED <<pc, err>>

\* fault: the end date tested only after the occurrence is appended
mutIterateEndAfterAppend(next, limit) ==
    LET appended == Append(times, current)
    IN  IF count > 0 /\ Len(appended) >= count
        THEN Return(appended, "") /\ UNCHANGED current
        ELSE /\ current' = next
             /\ IF \/ endDate # <<>> /\ After(next, endDate[1])
                   \/ endDate = <<>> /\ After(next, limit)
                THEN Return(appended, "")
                ELSE times' = appended /\ UNCHANGED <<pc, err>>

\* One iteration of the loop shared by calculateDailyTimes, the unfiltered
\* branch of calculateWeeklyTimes and calculateMonthlyTimes: next is current
\* advanced by the step, limit the safety limit start.AddDate(years, 0, 0).
Iterate(next, limit) ==
    IF endDate # <<>> /\ After(current, endDate[1])
    THEN Return(times, "") /\ UNCHANGED current
    ELSE LET appended == Append(times, current)
         IN  IF count > 0 /\ Len(appended) >= count
             THEN Return(appended, "") /\ UNCHANGED current
             ELSE /\ current' = next
                  /\ IF endDate = <<>> /\ After(next, limit)
                     THEN Return(appended, "")
                     ELSE times' = appended /\ UNCHANGED <<pc, err>>

calculateDailyTimes ==
    /\ pc = "daily"
    /\ Iterate(AddDate(current, 0, 0, 1), AddDate(start, 10, 0, 0))
    /\ UNCHANGED <<addrVars, config, start, endDate, count, schedVars>>

\* fault: the weekly loop given the daily loop's ceiling of 10 years
mutCalculateWeeklyTimes ==
    /\ pc = "weekly"
    /\ Iterate(AddDate(current, 0, 0, 7), AddDate(start, 10, 0, 0))
    /\ UNCHANGED <<addrVars, config, start, endDate, count, schedVars>>

calculateWeeklyTimes ==
    /\ pc = "weekly"
    /\ Iterate(AddDate(current, 0, 0, 7), AddDate(start, 5, 0, 0))
    /\ UNCHANGED <<addrVars, config, start, endDate, count, schedVars>>

\* fault: a month taken to be 30 days
mutCalculateMonthlyTimes ==
    /\ pc = "monthly"
    /\ Iterate(AddDate(current, 0, 0, 30), AddDate(start, 10, 0, 0))
    /\ UNCHANGED <<addrVars, config, start, endDate, count, schedVars>>

\* fault: each occurrence stepped from the anchor, start.AddDate(0, i, 0)
mutMonthlyFromAnchor ==
    /\ pc = "monthly"
    /\ Iterate(AddDate(start, 0, Len(times) + 1, 0), AddDate(start, 10, 0, 0))
    /\ UNCHANGED <<addrVars, config, start, endDate, count, schedVars>>

calculateMonthlyTimes ==
    /\ pc = "monthly"
    /\ Iterate(AddDate(current, 0, 1, 0), AddDate(start, 10, 0, 0))
    /\ UNCHANGED <<addrVars, config, start, endDate, count, schedVars>>

\* fault: the scan advanced only on matching days
mutCalculateSpecificDaysTimes ==
    /\ pc = "specificDays"
    /\ LET match    == Weekday(current) \in targetDays(config.Days)
           appended == IF match THEN Append(times, current) ELSE times
           next     == IF match THEN AddDate(current, 0, 0, 1) ELSE current
       IN  IF endDate # <<>> /\ After(current, endDate[1])
           THEN Return(times, "") /\ UNCHANGED current
           ELSE IF match /\ count > 0 /\ Len(appended) >= count
           THEN Return(appended, "") /\ UNCHANGED current
           ELSE /\ current' = next
                /\ IF endDate = <<>> /\ After(next, AddDate(start, 5, 0, 0))
                   THEN Return(appended, "")
                   ELSE times' = appended /\ UNCHANGED <<pc, err>>
    /\ UNCHANGED <<addrVars, config, start, endDate, count, schedVars>>

\* One iteration of the loop of calculateSpecificDaysTimes
calculateSpecificDaysTimes ==
    /\ pc = "specificDays"
    /\ LET match    == Weekday(current) \in targetDays(config.Days)
           appended == IF match THEN Append(times, current) ELSE times
           next     == AddDate(current, 0, 0, 1)
       IN  IF endDate # <<>> /\ After(current, endDate[1])
           THEN Return(times, "") /\ UNCHANGED current
           ELSE IF match /\ count > 0 /\ Len(appended) >= count
           THEN Return(appended, "") /\ UNCHANGED current
           ELSE /\ current' = next
                /\ IF endDate = <<>> /\ After(next, AddDate(start, 5, 0, 0))
                   THEN Return(appended, "")
                   ELSE times' = appended /\ UNCHANGED <<pc, err>>
    /\ UNCHANGED <<addrVars, config, start, endDate, count, schedVars>>

-----------------------------------------------------------------------------
\* The addressing commands (list, delete) are not running
NoParse == [ok |-> FALSE, index |-> 0]
NoReport == [err |-> "", scheduled |-> <<>>]
NoListing == [indexed |-> <<>>, groups |-> <<>>]
CmdIdle == report = NoReport /\ listChannel = "" /\ listed = NoListing

AddrIdle ==
    /\ CmdIdle
    /\ index = 0 /\ index2 = 0 /\ label = "" /\ label2 = ""
    /\ parsed = NoParse
    /\ deleteAll = FALSE /\ args = <<>> /\ messages = <<>>
    /\ indexed = <<>> /\ groups = <<>> /\ pos = 0
    /\ toDelete = <<>> /\ sortedMsgs = <<>> /\ deleted = 0
    /\ attempts = <<>> /\ delErr = ""

(* Specification of CalculateScheduleTimes alone                           *)

InitCalc ==
    /\ config \in Requests
    /\ pc = "call"
    /\ start = 0
    /\ endDate = <<>>
    /\ current = 0
    /\ count = 0
    /\ times = <<>>
    /\ err = ""
    /\ now = <<>>
    /\ idx = 0
    /\ scheduledIDs = <<>>
    /\ remote = <<>>
    /\ schedErr = ""
    /\ output = <<>>
    /\ AddrIdle

NextCalc ==
    \/ CalculateScheduleTimes
    \/ calculateDailyTimes
    \/ calculateWeeklyTimes
    \/ calculateSpecificDaysTimes
    \/ calculateMonthlyTimes

CalcSpec == InitCalc /\ [][NextCalc]_vars

-----------------------------------------------------------------------------
(* Scheduler.Schedule                                                      *)

maxFutureDays == 120

\* Schedule after CalculateScheduleTimes has returned: the error check, the
\* resolution of the channel (which may fail) and the reading of the clock
ScheduleResolve ==
    /\ pc = "returned"
    /\ IF err # ""
       THEN /\ schedErr' = err
            /\ pc' = "done"
            /\ UNCHANGED <<now, idx>>
       ELSE \/ /\ schedErr' = "channel not found"
               /\ pc' = "done"
               /\ UNCHANGED <<now, idx>>
            \/ /\ \E n \in NowChoices : now' = <<n>>
               /\ idx' = 1
               /\ pc' = "submit"
               /\ UNCHANGED schedErr
    /\ UNCHANGED <<addrVars, config, calcVars, scheduledIDs, remote, output>>

\* a line printed about the occurrence t
Line(text, t) == [line |-> text, t |-> t]

\* fault: a failed submission returns no identifiers (return nil, err)
mutScheduleMessage(t) ==
    \/ /\ remote' = Append(remote, t)
       /\ output' = output \o <<Line("Scheduling message for", t),
                                 Line("Scheduled message for", t)>>
       /\ scheduledIDs' = Append(scheduledIDs, t)
       /\ idx' = idx + 1
       /\ UNCHANGED <<pc, schedErr>>
    \/ /\ schedErr' = "failed to schedule message"
       /\ output' = Append(output, Line("Scheduling message for", t))
       /\ pc' = "done"
       /\ scheduledIDs' = <<>>
       /\ UNCHANGED <<remote, idx>>

\* client.ScheduleMessage(channelID, message, t): the API accepts the post
\* and the identifier returned is the post timestamp, or the call fails
ScheduleMessage(t) ==
    \/ /\ remote' = Append(remote, t)
       /\ output' = output \o <<Line("Scheduling message for", t),
                                 Line("Scheduled message for", t)>>
       /\ scheduledIDs' = Append(scheduledIDs, t)
       /\ idx' = idx + 1
       /\ UNCHANGED <<pc, schedErr>>
    \/ /\ schedErr' = "failed to schedule message"
       /\ output' = Append(output, Line("Scheduling message for", t))
       /\ pc' = "done"
       /\ UNCHANGED <<remote, scheduledIDs, idx>>

\* One iteration of the range loop of Schedule
ScheduleSubmit ==
    /\ pc = "submit"
    /\ idx <= Len(times)
    /\ LET t == times[idx]
           maxFuture == AddDate(now[1], 0, 0, maxFutureDays)
       IN  IF Before(t, now[1])
           THEN /\ idx' = idx + 1
                /\ output' = Append(output, Line("Skipping past time", t))
                /\ UNCHANGED <<pc, schedErr, remote, scheduledIDs>>
           ELSE IF After(t, maxFuture)
           THEN /\ idx' = idx + 1
                /\ output' = Append(output,
                       Line("Skipping time too far in future", t))
                /\ UNCHANGED <<pc, schedErr, remote, scheduledIDs>>
           ELSE ScheduleMessage(t)
    /\ UNCHANGED <<addrVars, config, calcVars, now>>

\* After the loop: the verification listing only prints, then Schedule returns
ScheduleVerify ==
    /\ pc = "submit"
    /\ idx > Len(times)
    /\ pc' = "done"
    /\ UNCHANGED <<addrVars, config, calcVars, schedVars>>

Init ==
    /\ config \in ScheduleRequests
    /\ pc = "call"
    /\ start = 0
    /\ endDate = <<>>
    /\ current = 0
    /\ count = 0
    /\ times = <<>>
    /\ err = ""
    /\ now = <<>>
    /\ idx = 0
    /\ scheduledIDs = <<>>
    /\ remote = <<>>
    /\ schedErr = ""
    /\ output = <<>>
    /\ AddrIdle

Next ==
    \/ CalculateScheduleTimes
    \/ calculateDailyTimes
    \/ calculateWeeklyTimes
    \/ calculateSpecificDaysTimes
    \/ calculateMonthlyTimes
    \/ ScheduleResolve
    \/ ScheduleSubmit
    \/ ScheduleVerify

Spec == Init /\ [][Next]_vars

-----------------------------------------------------------------------------
(* Properties of CalculateScheduleTimes                                    *)

Returned == pc = "returned"
Accepted == Returned /\ err = ""
NoEndDate == config.EndDate = ""
Unfiltered == Len(config.Days) = 0

DayOf(t) == t \div (24 * 60 * 60)
DaysAfter(t, n) == t + n * 24 * 60 * 60
Range(seq) == {seq[i] : i \in 1..Len(seq)}

\* the last second of the day named by the request's end date
EndOfEndDay == DaysAfter(parseDate(config.EndDate).t, 1) - 1

\* the anchor moved on by whole calendar years, its other fields kept
YearsAfter(t, n) == Date(Year(t) + n, Month(t), Day(t), Hour(t), Minute(t), Second(t))

\* step in days and ceiling in years of the two fixed-step kinds
StepDays == IF config.Interval = IntervalDaily THEN 1 ELSE 7
CeilingYears == IF config.Interval = IntervalWeekly THEN 5 ELSE 10

FixedStepCase ==
    /\ Accepted
    /\ \/ config.Interval = IntervalDaily
       \/ config.Interval = IntervalWeekly /\ Unfiltered

\* times[k] is the anchor moved on by (k-1) steps, for every k
OnFixedGrid ==
    \A k \in 1..Len(times) : times[k] = DaysAfter(start, (k - 1) * StepDays)

\* C1 as stated: daily or unfiltered weekly recurrence with repeat count
\* N > 0 and no end date returns exactly N occurrences, the k-th being the
\* anchor plus k steps of 1 or 7 days at the anchor's time of day.
C1_Original ==
    (FixedStepCase /\ config.RepeatCount > 0 /\ NoEndDate)
        => (Len(times) = config.RepeatCount /\ OnFixedGrid)

\* C1 amended: the occurrences are the anchor plus k steps for k = 0, 1, ...
\* and there are N of them unless the safety ceiling (anchor plus 10 years
\* for daily, 5 years for weekly) cuts the sequence short: then they are
\* exactly the candidates not later than the ceiling.
C1_CountOrCeiling ==
    (FixedStepCase /\ config.RepeatCount > 0 /\ NoEndDate)
        => /\ OnFixedGrid
           /\ Len(times) >= 1
           /\ Len(times) <= config.RepeatCount
           /\ \A k \in 1..Len(times) : times[k] <= YearsAfter(start, CeilingYears)
           /\ Len(times) < config.RepeatCount
                 => DaysAfter(start, Len(times) * StepDays)
                        > YearsAfter(start, CeilingYears)

\* a daily request with a small count answered in full, over a month's end
C1_Witness ==
    /\ FixedStepCase /\ NoEndDate
    /\ config.Interval = IntervalDaily
    /\ config.RepeatCount = 3
    /\ config.StartDate = "2025-01-31"
    /\ Len(times) = 3

\* C2: daily recurrence with repeat count <= 0 and an end date E on or after
\* the anchor date returns one occurrence for each calendar day from the
\* anchor date through E inclusive, whatever the time of day, and none after.
C2_DailyThroughEndDate ==
    (/\ Accepted
     /\ config.Interval = IntervalDaily
     /\ config.RepeatCount <= 0
     /\ ~NoEndDate
     /\ DayOf(parseDate(config.EndDate).t) >= DayOf(start))
        => /\ Len(times) = DayOf(parseDate(config.EndDate).t) - DayOf(start) + 1
           /\ \A k \in 1..Len(times) : times[k] = DaysAfter(start, k - 1)
           /\ \A k \in 1..Len(times) : times[k] <= EndOfEndDay

\* an occurrence at 23:59 on the end date itself is returned
C2_Witness ==
    /\ Accepted
    /\ config.Interval = IntervalDaily
    /\ config.RepeatCount <= 0
    /\ config.SendTime = "23:59"
    /\ Len(times) = MaxEndOffset + 1
    /\ formatDate(times[Len(times)]) = config.EndDate

\* the weekday filter of the request, as a predicate on instants
Matches(t) == Weekday(t) \in targetDays(config.Days)

\* the first instant at or after t, in whole days, whose weekday matches
NextMatch(t) ==
    DaysAfter(t, CHOOSE d \in 0..6 :
                    /\ Matches(DaysAfter(t, d))
                    /\ \A e \in 0..(d - 1) : ~Matches(DaysAfter(t, e)))

\* the k-th candidate occurrence of a recurring request, k = 1, 2, ...
RECURSIVE Candidate(_)
Candidate(k) ==
    CASE config.Interval = IntervalDaily -> DaysAfter(start, k - 1)
      [] config.Interval = IntervalWeekly /\ Unfiltered -> DaysAfter(start, 7 * (k - 1))
      [] config.Interval = IntervalWeekly /\ ~Unfiltered ->
            IF k = 1 THEN NextMatch(start)
            ELSE NextMatch(DaysAfter(Candidate(k - 1), 1))
      [] config.Interval = IntervalMonthly ->
            IF k = 1 THEN start
            ELSE LET p == Candidate(k - 1)
                 IN  Date(Year(p), Month(p) + 1, Day(p), Hour(p), Minute(p), Second(p))

Recurring == config.Interval \in {IntervalDaily, IntervalWeekly, IntervalMonthly}

\* C3: with both a repeat count N > 0 and an end date E, a recurring request
\* returns the first min(N, M) candidates, M being the number of candidates
\* on or before the end of day E: whichever bound triggers first ends it.
C3_CountAndEndDate ==
    (Accepted /\ Recurring /\ config.RepeatCount > 0 /\ ~NoEndDate)
        => /\ Len(times) <= config.RepeatCount
           /\ \A k \in 1..Len(times) :
                 times[k] = Candidate(k) /\ times[k] <= EndOfEndDay
           /\ Len(times) < config.RepeatCount
                 => Candidate(Len(times) + 1) > EndOfEndDay

\* the end date ends a filtered weekly sequence before the count is reached
C3_Witness ==
    /\ Accepted /\ ~NoEndDate
    /\ config.Interval = IntervalWeekly /\ ~Unfiltered
    /\ config.RepeatCount = MaxCount
    /\ Len(times) >= 2
    /\ Len(times) < config.RepeatCount

FilteredCase == Accepted /\ config.Interval = IntervalWeekly /\ ~Unfiltered

\* C5: weekly recurrence with a weekday filter returns, in order, exactly
\* the dates at or after the anchor whose weekday is in the filter, up to
\* the bound: only matching days, at the anchor's time of day, none skipped
\* before the last one returned, the anchor itself if and only if it
\* matches (and lies within the end date), and the Mon/Wed/Fri example.
C5_WeekdayFilter ==
    FilteredCase
        => /\ \A k \in 1..Len(times) :
                 /\ Matches(times[k])
                 /\ times[k] >= start
                 /\ (times[k] - start) % (24 * 60 * 60) = 0
           /\ \A j, k \in 1..Len(times) : j < k => times[j] < times[k]
           /\ Len(times) > 0
                 => \A d \in 0..(DayOf(times[Len(times)]) - DayOf(start)) :
                        Matches(DaysAfter(start, d))
                            => DaysAfter(start, d) \in Range(times)
           /\ (start \in Range(times))
                 <=> (Matches(start) /\ (NoEndDate \/ start <= EndOfEndDay))
           /\ count > 0 => Len(times) <= count
           /\ (count <= 0 \/ Len(times) < count)
                 => LET next == IF Len(times) = 0 THEN NextMatch(start)
                                ELSE NextMatch(DaysAfter(times[Len(times)], 1))
                    IN  IF NoEndDate THEN next > YearsAfter(start, 5)
                        ELSE next > EndOfEndDay
           /\ (/\ config.Days = <<"monday", "wednesday", "friday">>
               /\ config.StartDate = "2025-01-13"
               /\ config.RepeatCount = 6
               /\ NoEndDate)
                 => times = <<DaysAfter(start, 0), DaysAfter(start, 2),
                              DaysAfter(start, 4), DaysAfter(start, 7),
                              DaysAfter(start, 9), DaysAfter(start, 11)>>

\* the Mon/Wed/Fri example itself
C5_Witness ==
    /\ FilteredCase /\ NoEndDate
    /\ config.Days = <<"monday", "wednesday", "friday">>
    /\ config.StartDate = "2025-01-13"
    /\ config.RepeatCount = 6
    /\ Len(times) = 6

\* the input strings of the model that are no calendar date / no 24-hour time
UnparseableDates == {"01-15-2025", "2025-02-30", "invalid-date"}
UnparseableTimes == {"9:00 AM"}

InputsParse ==
    /\ config.StartDate \notin UnparseableDates
    /\ config.SendTime \notin UnparseableTimes
    /\ config.EndDate \notin UnparseableDates

\* C6: interval kind single returns exactly one occurrence, at the anchor
\* date and time, whatever the repeat count and the (parseable) end date,
\* an end date earlier than the anchor included.
C6_SingleOccurrence ==
    (Returned /\ config.Interval = IntervalNone /\ InputsParse)
        => /\ err = ""
           /\ Len(times) = 1
           /\ formatDate(times[1]) = config.StartDate
           /\ pad2(Hour(times[1])) \o ":" \o pad2(Minute(times[1])) = config.SendTime
           /\ Second(times[1]) = 0

\* a single request with a count and an end date before the anchor
C6_Witness ==
    /\ Returned
    /\ config.Interval = IntervalNone
    /\ config.RepeatCount = MaxCount
    /\ config.StartDate = "2025-01-31"
    /\ config.EndDate = "2025-01-30"
    /\ Len(times) = 1

\* months since year 0 of the civil date of an instant
MonthIndex(t) == Year(t) * 12 + Month(t)

\* C7: monthly recurrence from a day-of-month of at most 28 puts the k-th
\* occurrence on that day-of-month, at the anchor's time of day, in the
\* k-th month after the anchor month: one per consecutive month, until the
\* count, the end date or the safety ceiling ends the sequence.
C7_MonthlySameDay ==
    (Accepted /\ config.Interval = IntervalMonthly /\ Day(start) <= 28)
        => /\ \A k \in 1..Len(times) :
                 /\ MonthIndex(times[k]) = MonthIndex(start) + (k - 1)
                 /\ Day(times[k]) = Day(start)
                 /\ times[k] % (24 * 60 * 60) = start % (24 * 60 * 60)
           /\ count > 0 => Len(times) <= count
           /\ (count <= 0 \/ Len(times) < count)
                 => LET next == Date(Year(start), Month(start) + Len(times),
                                     Day(start), Hour(start), Minute(start), 0)
                    IN  IF NoEndDate THEN next > YearsAfter(start, 10)
                        ELSE next > EndOfEndDay

\* a monthly sequence from 28 February of a leap year, ended by its end date
C7_Witness ==
    /\ Accepted
    /\ config.Interval = IntervalMonthly
    /\ config.StartDate = "2024-02-28"
    /\ config.RepeatCount <= 0
    /\ Len(times) = 3
    /\ formatDate(times[3]) = "2024-04-28"

\* the requests of the termination check: every interval kind, repeat
\* count, end date and weekday filter, and the requests only a ceiling ends
TermRequests ==
    {Config("2025-01-31", "09:00", iv, rc, ed, ds) :
        iv \in Intervals, rc \in -1..MaxCount,
        ed \in EndDatesFor("2025-01-31"), ds \in DaySets}
    \cup CeilingRequests

InitTerm == InitCalc /\ config \in TermRequests

\* the scheduler runs CalculateScheduleTimes to its return: a call that
\* can take a step takes it
CalcFair == InitTerm /\ [][NextCalc]_vars /\ WF_vars(NextCalc)

\* C8: CalculateScheduleTimes terminates for every request: every
\* generation loop ends through the count, the end date or the ceiling.
C8_Terminates == <>Returned

\* a loop ended by the safety ceiling alone
C8_Witness ==
    /\ Accepted /\ NoEndDate
    /\ config.Interval = IntervalWeekly /\ Unfiltered
    /\ config.RepeatCount = HugeCount
    /\ Len(times) < count

\* C9: CalculateScheduleTimes fails, and returns no occurrence at all,
\* exactly when the anchor date, the time of day or a supplied end date
\* does not parse or the interval kind is none of none/daily/weekly/monthly;
\* an unparseable end date fails the call for interval kind single too.
C9_ErrorsReturnNothing ==
    Returned
        => /\ (err # "") <=> (~InputsParse \/ (~Recurring /\ config.Interval # IntervalNone))
           /\ err # "" => times = <<>>

\* a single request with an unparseable end date
C9_Witness ==
    /\ Returned
    /\ config.Interval = IntervalNone
    /\ config.StartDate = "2025-01-13"
    /\ config.SendTime = "09:00"
    /\ config.EndDate = "invalid-date"
    /\ err # ""
    /\ times = <<>>

-----------------------------------------------------------------------------
(* Properties of Schedule                                                  *)

\* the submission window of Schedule: from now to 120 days of 24 hours on
InWindow(t) == now[1] <= t /\ t <= DaysAfter(now[1], 120)

\* C10: when no submission fails, Schedule submits exactly the computed
\* occurrences t with now <= t <= now + 120 days, each once and in
\* ascending order; an occurrence exactly at now or exactly at now + 120
\* days is submitted, one strictly outside is dropped.
C10_SubmitsWindow ==
    (pc = "done" /\ schedErr = "")
        => /\ remote = SelectSeq(times, InWindow)
           /\ scheduledIDs = remote
           /\ \A j, k \in 1..Len(remote) : j < k => remote[j] < remote[k]

\* a run that submits the occurrence exactly 120 days ahead and drops later ones
C10_Witness ==
    /\ pc = "done" /\ schedErr = ""
    /\ \E k \in 1..Len(times) :
          /\ times[k] = DaysAfter(now[1], 120)
          /\ times[k] \in Range(remote)
          /\ k < Len(times)
    /\ Len(remote) >= 2

-----------------------------------------------------------------------------
(* Addressing: group labels (generateGroupLabel, parseGroupLabel,          *)
(* isGroupLabel) and the library conversions they call                     *)

upperLetters == "ABCDEFGHIJKLMNOPQRSTUVWXYZ"
lowerLetters == "abcdefghijklmnopqrstuvwxyz"

\* the byte at position i of s, as a string of length one
charAt(s, i) == SubSeq(s, i, i)

\* the 1-based position of the one-byte string c in alphabet, 0 when absent
RECURSIVE posFrom(_, _, _)
posFrom(alphabet, c, i) ==
    IF i > Len(alphabet) THEN 0
    ELSE IF charAt(alphabet, i) = c THEN i
    ELSE posFrom(alphabet, c, i + 1)
posIn(alphabet, c) == posFrom(alphabet, c, 1)

\* strings.ToUpper on ASCII text: a-z become A-Z, every other byte is kept
RECURSIVE ToUpper(_)
ToUpper(s) ==
    IF Len(s) = 0 THEN ""
    ELSE LET c == charAt(s, 1)
             k == posIn(lowerLetters, c)
         IN (IF k > 0 THEN charAt(upperLetters, k) ELSE c)
                \o ToUpper(SubSeq(s, 2, Len(s)))

\* strings.TrimSpace: leading and trailing white space removed
RECURSIVE trimLeft(_)
trimLeft(s) ==
    IF Len(s) > 0 /\ charAt(s, 1) = " " THEN trimLeft(SubSeq(s, 2, Len(s)))
    ELSE s
RECURSIVE trimRight(_)
trimRight(s) ==
    IF Len(s) > 0 /\ charAt(s, Len(s)) = " "
    THEN trimRight(SubSeq(s, 1, Len(s) - 1))
    ELSE s
TrimSpace(s) == trimRight(trimLeft(s))

\* fault: only the last decimal digit is written
mutItoa(n) == charAt(digits, (n % 10) + 1)

\* fmt.Sprintf("%d", n) for n >= 0: the decimal digits, most significant first
RECURSIVE itoa(_)
itoa(n) ==
    IF n < 10 THEN charAt(digits, n + 1)
    ELSE itoa(n \div 10) \o charAt(digits, (n % 10) + 1)

\* the loop of strconv.Atoi over an all-digit string: n = n*10 + digit
RECURSIVE atoiDigits(_, _)
atoiDigits(s, n) ==
    IF Len(s) = 0 THEN n
    ELSE atoiDigits(SubSeq(s, 2, Len(s)), n * 10 + digitVal(s, 1))

\* strconv.Atoi: an optional sign, then one or more decimal digits.  Strings
\* are short enough here for the value to fit an int (no range error).
Atoi(s) ==
    LET signed == Len(s) > 0 /\ charAt(s, 1) \in {"-", "+"}
        body == IF signed THEN SubSeq(s, 2, Len(s)) ELSE s
    IN IF Len(body) < 1 \/ \E i \in 1..Len(body) : ~isDigit(body, i)
       THEN [ok |-> FALSE, n |-> 0]
       ELSE [ok |-> TRUE,
             n |-> IF charAt(s, 1) = "-" THEN 0 - atoiDigits(body, 0)
                   ELSE atoiDigits(body, 0)]

\* fault: the cycle suffix is left out
mutGenerateGroupLabel(i) == charAt(upperLetters, (i % 26) + 1)

generateGroupLabel(i) ==
    LET letter == charAt(upperLetters, (i % 26) + 1)
        cycle == i \div 26
    IN IF cycle = 0 THEN letter ELSE letter \o itoa(cycle + 1)

\* fault: the cycle number is taken as the number of whole alphabets
mutParseGroupLabel(s) ==
    LET l == ToUpper(TrimSpace(s))
        letterIndex == posIn(upperLetters, charAt(l, 1)) - 1
        cycle == Atoi(SubSeq(l, 2, Len(l)))
    IN IF Len(l) = 0 THEN NoParse
       ELSE IF posIn(upperLetters, charAt(l, 1)) = 0 THEN NoParse
       ELSE IF Len(l) = 1 THEN [ok |-> TRUE, index |-> letterIndex]
       ELSE IF ~cycle.ok \/ cycle.n < 2 THEN NoParse
       ELSE [ok |-> TRUE, index |-> letterIndex + cycle.n * 26]

parseGroupLabel(s) ==
    LET l == ToUpper(TrimSpace(s))
        letterIndex == posIn(upperLetters, charAt(l, 1)) - 1
        cycle == Atoi(SubSeq(l, 2, Len(l)))
    IN IF Len(l) = 0 THEN NoParse
       ELSE IF posIn(upperLetters, charAt(l, 1)) = 0 THEN NoParse
       ELSE IF Len(l) = 1 THEN [ok |-> TRUE, index |-> letterIndex]
       ELSE IF ~cycle.ok \/ cycle.n < 2 THEN NoParse
       ELSE [ok |-> TRUE, index |-> letterIndex + (cycle.n - 1) * 26]

isGroupLabel(s) ==
    LET l == ToUpper(TrimSpace(s))
        rest == SubSeq(l, 2, Len(l))
        num == Atoi(rest)
    IN IF Len(l) = 0 THEN FALSE
       ELSE IF posIn(upperLetters, charAt(l, 1)) = 0 THEN FALSE
       ELSE IF Len(l) = 1 THEN TRUE
       ELSE IF \E i \in 1..Len(rest) : ~isDigit(rest, i) THEN FALSE
       ELSE IF ~num.ok \/ num.n < 2 THEN FALSE
       ELSE TRUE

-----------------------------------------------------------------------------
(* Specification of the label functions alone: labels are generated for a  *)
(* pair of group ordinals and parsed back, or a typed label is parsed      *)

MaxIndex == 260

TypedLabels ==
    {"", "A", "B", "Z", "a", "A2", "B2", "Z2", "A3", "z3", "Z99", "b12",
     "1", "12", "AA", "A1", "A0", "AB", "1A", "@", "A-1", "A-2", "A.2",
     "A+2", "A+1", "A02", "A2x", "A 2", " B ", " c3", "+2", "-", "A+", "aB2"}

\* The scheduler is not running
SchedIdle ==
    /\ config = Config("", "", IntervalNone, 0, "", <<>>)
    /\ start = 0 /\ endDate = <<>> /\ current = 0 /\ count = 0
    /\ times = <<>> /\ err = ""
    /\ now = <<>> /\ idx = 0 /\ scheduledIDs = <<>> /\ remote = <<>>
    /\ schedErr = "" /\ output = <<>>

DeleteIdle ==
    /\ deleteAll = FALSE /\ args = <<>> /\ messages = <<>>
    /\ indexed = <<>> /\ groups = <<>> /\ pos = 0
    /\ toDelete = <<>> /\ sortedMsgs = <<>> /\ deleted = 0
    /\ attempts = <<>> /\ delErr = ""

InitLabel ==
    /\ SchedIdle
    /\ CmdIdle
    /\ DeleteIdle
    /\ label2 = "" /\ parsed = NoParse
    /\ \/ /\ pc = "generate"
          /\ index \in 0..MaxIndex /\ index2 \in 0..MaxIndex
          /\ label = ""
       \/ /\ pc = "typed"
          /\ index = 0 /\ index2 = 0
          /\ label \in TypedLabels

\* label := generateGroupLabel(i), for two ordinals
CallGenerateGroupLabel ==
    /\ pc = "generate"
    /\ label' = generateGroupLabel(index)
    /\ label2' = generateGroupLabel(index2)
    /\ pc' = "generated"
    /\ UNCHANGED <<index, index2, parsed>>
    /\ UNCHANGED <<cmdVars, config, calcVars, schedVars, deleteVars>>

\* parsed, ok := parseGroupLabel(label)
CallParseGroupLabel ==
    /\ pc \in {"generated", "typed"}
    /\ parsed' = parseGroupLabel(label)
    /\ pc' = IF pc = "generated" THEN "roundtrip" ELSE "parsed"
    /\ UNCHANGED <<index, index2, label, label2>>
    /\ UNCHANGED <<cmdVars, config, calcVars, schedVars, deleteVars>>

NextLabel ==
    \/ CallGenerateGroupLabel
    \/ CallParseGroupLabel

LabelSpec == InitLabel /\ [][NextLabel]_vars

-----------------------------------------------------------------------------
(* Properties of the label functions                                       *)

RECURSIVE Pow10(_)
Pow10(k) == IF k = 0 THEN 1 ELSE 10 * Pow10(k - 1)

\* the number an all-digit string denotes, by place value
RECURSIVE PlaceSum(_, _)
PlaceSum(s, i) ==
    IF i > Len(s) THEN 0
    ELSE digitVal(s, i) * Pow10(Len(s) - i) + PlaceSum(s, i + 1)
DecimalValue(s) == PlaceSum(s, 1)

AllDigits(s) == Len(s) >= 1 /\ \A i \in 1..Len(s) : isDigit(s, i)

IsLetter(c) == posIn(upperLetters, c) > 0 \/ posIn(lowerLetters, c) > 0

Suffix(s) == SubSeq(s, 2, Len(s))

\* one letter A-Z in either case, optionally followed by a decimal
\* integer that is at least 2
WellFormedLabel(s) ==
    /\ Len(s) >= 1
    /\ IsLetter(charAt(s, 1))
    /\ Len(s) > 1 => AllDigits(Suffix(s)) /\ DecimalValue(Suffix(s)) >= 2

Labelled == pc \in {"generated", "roundtrip"}

\* C11: for every group ordinal i >= 0, parsing the label generated for i
\* succeeds and gives back i.
C11_RoundTrip ==
    pc = "roundtrip" => parsed.ok /\ parsed.index = index

\* a round trip through a label with a two-digit cycle number
C11_Witness ==
    /\ pc = "roundtrip"
    /\ index = 259 /\ label = "Z10"
    /\ parsed = [ok |-> TRUE, index |-> 259]

\* C12: generateGroupLabel is injective on the non-negative integers: two
\* different group ordinals never get the same label.
C12_Injective ==
    (Labelled /\ index # index2) => label # label2

\* two ordinals with the same letter in different cycles, labelled apart
C12_Witness ==
    /\ Labelled
    /\ index = 0 /\ index2 = 26
    /\ label = "A" /\ label2 = "A2"

\* C13: the label of i is the (i mod 26)-th letter alone when i < 26, and
\* that letter followed by the decimal digits of (i div 26) + 1 when
\* i >= 26; the letter part never carries (0->A, 25->Z, 26->A2, 51->Z2,
\* 52->A3, 78->A4), so a label never has two letters nor the suffix 1.
C13_LabelShape ==
    Labelled =>
        /\ charAt(label, 1) = charAt(upperLetters, (index % 26) + 1)
        /\ index < 26 => Len(label) = 1
        /\ index >= 26 =>
              /\ AllDigits(Suffix(label))
              /\ charAt(label, 2) # "0"
              /\ DecimalValue(Suffix(label)) = (index \div 26) + 1
        /\ Suffix(label) # "1"
        /\ index = 0 => label = "A"
        /\ index = 25 => label = "Z"
        /\ index = 26 => label = "A2"
        /\ index = 51 => label = "Z2"
        /\ index = 52 => label = "A3"
        /\ index = 78 => label = "A4"

\* the fourth alphabet starts again at the letter A
C13_Witness ==
    pc = "generated" /\ index = 78 /\ label = "A4"

\* C14: parseGroupLabel fails on every string that is not one letter A-Z
\* (either case) optionally followed by a decimal integer >= 2: an empty
\* string, a leading digit, a non-digit anywhere after the letter, a cycle
\* below 2 and a second letter all make it fail.
C14_RejectsMalformed ==
    (pc = "parsed" /\ ~WellFormedLabel(label)) => ~parsed.ok

-----------------------------------------------------------------------------
(* Addressing: buildIndexedMessages and groupMessages                      *)
(*                                                                         *)
(* A *IndexedMessage is modelled as its position in indexed; the channel   *)
(* fields, which only feed the printed lines, are left out.                *)

\* fault: the slice is left in the order it was given
mutSortSlice(ms) == {ms}

\* sort.Slice(messages, PostAt <): the sort is not stable, so every
\* ordering of ms that ascends by PostAt is a possible outcome
sortSlice(ms) ==
    {s \in {[i \in 1..Len(ms) |-> ms[q[i]]] : q \in Permutations(1..Len(ms))} :
        \A i, j \in 1..Len(ms) : i < j => s[i].PostAt <= s[j].PostAt}

\* the loop of buildIndexedMessages over the sorted slice
indexedOf(ms) ==
    [i \in 1..Len(ms) |->
        [Index |-> i, SlackID |-> ms[i].ID, Text |-> ms[i].Text,
         PostAt |-> ms[i].PostAt, GroupLabel |-> ""]]

\* fault: a text is entered again each time it is met
mutTextOrder(ims) == [i \in 1..Len(ims) |-> ims[i].Text]

\* textOrder after the first loop of groupMessages: the distinct texts in
\* the order of their first occurrence
RECURSIVE textOrder(_)
textOrder(ims) ==
    IF Len(ims) = 0 THEN <<>>
    ELSE LET before == textOrder(SubSeq(ims, 1, Len(ims) - 1))
             text == ims[Len(ims)].Text
         IN IF \E k \in 1..Len(before) : before[k] = text
            THEN before
            ELSE Append(before, text)

\* textGroups[text] after the first loop: the messages with that text, in
\* the order they were appended
textGroups(ims, text) ==
    SelectSeq([i \in 1..Len(ims) |-> i], LAMBDA i : ims[i].Text = text)

\* the result of groupMessages
groupsOf(ims) ==
    [g \in 1..Len(textOrder(ims)) |->
        [Label |-> generateGroupLabel(g - 1),
         Text |-> textOrder(ims)[g],
         Messages |-> textGroups(ims, textOrder(ims)[g])]]

\* msg.GroupLabel = label, seen through the pointers shared with indexed
labelledBy(ims, gs) ==
    [i \in 1..Len(ims) |->
        IF \E g \in 1..Len(gs) : \E k \in 1..Len(gs[g].Messages) :
               gs[g].Messages[k] = i
        THEN [ims[i] EXCEPT !.GroupLabel =
                 gs[CHOOSE g \in 1..Len(gs) :
                        \E k \in 1..Len(gs[g].Messages) :
                            gs[g].Messages[k] = i].Label]
        ELSE ims[i]]

buildIndexedMessages ==
    /\ pc = "build"
    /\ \E sorted \in sortSlice(messages) :
          /\ messages' = sorted
          /\ indexed' = indexedOf(sorted)
    /\ pc' = "group"
    /\ UNCHANGED <<deleteAll, args, groups, pos, toDelete, sortedMsgs,
                   deleted, attempts, delErr>>
    /\ UNCHANGED <<cmdVars, config, calcVars, schedVars, labelVars>>

groupMessages ==
    /\ pc = "group"
    /\ \E gs \in {groupsOf(indexed)} :
          /\ groups' = gs
          /\ indexed' = labelledBy(indexed, gs)
    /\ pc' = "resolve"
    /\ pos' = 1
    /\ UNCHANGED <<deleteAll, args, messages, toDelete, sortedMsgs,
                   deleted, attempts, delErr>>
    /\ UNCHANGED <<cmdVars, config, calcVars, schedVars, labelVars>>

-----------------------------------------------------------------------------
(* The delete command (runDelete)                                          *)

ErrUsage == "must specify message IDs, group labels, or --all"
ErrBoth == "cannot specify both IDs/groups and --all"
ErrCollaborator == "credentials or listing failed"
ErrUnknownIndex == "message ID not found"
ErrUnknownGroup == "group not found"
ErrInvalidToken == "invalid argument"

\* Validation of the arguments, credentials and the listing of the
\* scheduled messages; messages holds what the Slack API returns
runDelete ==
    /\ pc = "delete"
    /\ \/ /\ Len(args) = 0 /\ ~deleteAll
          /\ delErr' = ErrUsage /\ pc' = "done"
       \/ /\ Len(args) > 0 /\ deleteAll
          /\ delErr' = ErrBoth /\ pc' = "done"
       \/ /\ (Len(args) = 0) = deleteAll
          /\ \/ delErr' = ErrCollaborator /\ pc' = "done"
             \/ /\ Len(messages) = 0
                /\ pc' = "done" /\ UNCHANGED delErr
             \/ /\ Len(messages) > 0
                /\ pc' = "build" /\ UNCHANGED delErr
    /\ UNCHANGED <<deleteAll, args, messages, indexed, groups, pos, toDelete,
                   sortedMsgs, deleted, attempts>>
    /\ UNCHANGED <<cmdVars, config, calcVars, schedVars, labelVars>>

\* indexToMsg[id]: the messages with that Index
indexToMsg(id) == {p \in 1..Len(indexed) : indexed[p].Index = id}

\* groupLabelToGroup[key]: the groups stored under that key
groupLabelToGroup(key) ==
    {g \in 1..Len(groups) : ToUpper(groups[g].Label) = key}

\* fault: an entry whose key is present is stored under a new key
mutPut(m, k, v) ==
    LET key == IF k \in DOMAIN m THEN k + 100 * Cardinality(DOMAIN m) ELSE k
    IN [j \in DOMAIN m \cup {key} |-> IF j = key THEN v ELSE m[j]]

\* m[k] = v on a Go map
put(m, k, v) == [j \in DOMAIN m \cup {k} |-> IF j = k THEN v ELSE m[j]]

\* fault: only the first message of ptrs is stored
mutPutAll(m, ptrs) ==
    IF Len(ptrs) = 0 THEN m
    ELSE put(m, indexed[Head(ptrs)].Index, Head(ptrs))

\* toDelete[msg.Index] = msg for each msg of ptrs, in order
RECURSIVE putAll(_, _)
putAll(m, ptrs) ==
    IF Len(ptrs) = 0 THEN m
    ELSE putAll(put(m, indexed[Head(ptrs)].Index, Head(ptrs)), Tail(ptrs))

\* --all: every indexed message is a target
runDeleteAll ==
    /\ pc = "resolve"
    /\ deleteAll
    /\ toDelete' = putAll(toDelete, [i \in 1..Len(indexed) |-> i])
    /\ pc' = "sort"
    /\ UNCHANGED <<deleteAll, args, messages, indexed, groups, pos,
                   sortedMsgs, deleted, attempts, delErr>>
    /\ UNCHANGED <<cmdVars, config, calcVars, schedVars, labelVars>>

\* fault: the failing token is reported and skipped, the loop goes on
mutResolveFails(e) ==
    /\ delErr' = e
    /\ pos' = pos + 1
    /\ pc' = IF pos = Len(args) THEN "sort" ELSE "resolve"
    /\ UNCHANGED toDelete

\* a token that does not resolve: runDelete returns the error at once
resolveFails(e) ==
    /\ delErr' = e
    /\ pc' = "done"
    /\ UNCHANGED <<toDelete, pos>>

\* One iteration of the loop over args
runDeleteResolve ==
    /\ pc = "resolve"
    /\ ~deleteAll
    /\ pos <= Len(args)
    /\ \E arg \in {TrimSpace(args[pos])} :
       \E id \in {Atoi(arg)} :
          IF id.ok
          THEN IF indexToMsg(id.n) = {}
               THEN resolveFails(ErrUnknownIndex)
               ELSE /\ toDelete' = putAll(toDelete,
                                      <<CHOOSE p \in indexToMsg(id.n) : TRUE>>)
                    /\ pos' = pos + 1
                    /\ pc' = IF pos = Len(args) THEN "sort" ELSE "resolve"
                    /\ UNCHANGED delErr
          ELSE IF isGroupLabel(arg)
          THEN IF groupLabelToGroup(ToUpper(arg)) = {}
               THEN resolveFails(ErrUnknownGroup)
               ELSE /\ toDelete' = putAll(toDelete,
                          groups[CHOOSE g \in groupLabelToGroup(ToUpper(arg)) :
                                     TRUE].Messages)
                    /\ pos' = pos + 1
                    /\ pc' = IF pos = Len(args) THEN "sort" ELSE "resolve"
                    /\ UNCHANGED delErr
          ELSE resolveFails(ErrInvalidToken)
    /\ UNCHANGED <<deleteAll, args, messages, indexed, groups,
                   sortedMsgs, deleted, attempts>>
    /\ UNCHANGED <<cmdVars, config, calcVars, schedVars, labelVars>>

\* the range loop over the map: its values, one per key
RECURSIVE valuesOf(_, _)
valuesOf(m, keys) ==
    IF keys = {} THEN <<>>
    ELSE LET k == CHOOSE x \in keys : \A y \in keys : x <= y
         IN <<m[k]>> \o valuesOf(m, keys \ {k})

\* sort.Slice(sortedMsgs, Index <): the keys of the map are the Index
\* values, so no two elements compare equal and the outcome is the one
\* ascending order
RECURSIVE sortedByIndex(_)
sortedByIndex(ptrs) ==
    IF Len(ptrs) = 0 THEN <<>>
    ELSE LET rest == sortedByIndex(Tail(ptrs))
             p == Head(ptrs)
             smaller == SelectSeq(rest,
                            LAMBDA q : indexed[q].Index < indexed[p].Index)
             larger == SelectSeq(rest,
                            LAMBDA q : indexed[q].Index >= indexed[p].Index)
         IN smaller \o <<p>> \o larger

\* The targets are put in Index order and the deletion loop is entered
runDeleteSort ==
    /\ pc = "sort"
    /\ IF DOMAIN toDelete = {}
       THEN /\ pc' = "done"
            /\ UNCHANGED <<sortedMsgs, pos, deleted>>
       ELSE /\ sortedMsgs' = sortedByIndex(valuesOf(toDelete, DOMAIN toDelete))
            /\ deleted' = 0
            /\ pos' = 1
            /\ pc' = "loop"
    /\ UNCHANGED <<deleteAll, args, messages, indexed, groups, toDelete,
                   attempts, delErr>>
    /\ UNCHANGED <<cmdVars, config, calcVars, schedVars, labelVars>>

\* client.DeleteScheduledMessage: the Slack API accepts or refuses
DeleteScheduledMessage(slackID) == {TRUE, FALSE}

\* fault: a refused deletion is counted too
mutCountDeleted(n, ok) == n + 1

\* deleted++ on success only
countDeleted(n, ok) == IF ok THEN n + 1 ELSE n

\* One iteration of the deletion loop; after the last one runDelete
\* returns nil
runDeleteLoop ==
    /\ pc = "loop"
    /\ pos <= Len(sortedMsgs)
    /\ \E msg \in {indexed[sortedMsgs[pos]]} :
          IF msg.SlackID = ""
          THEN UNCHANGED <<attempts, deleted>>
          ELSE \E ok \in DeleteScheduledMessage(msg.SlackID) :
                  /\ attempts' = Append(attempts,
                        [Index |-> msg.Index, SlackID |-> msg.SlackID,
                         ok |-> ok])
                  /\ deleted' = countDeleted(deleted, ok)
    /\ pos' = pos + 1
    /\ pc' = IF pos = Len(sortedMsgs) THEN "done" ELSE "loop"
    /\ UNCHANGED <<deleteAll, args, messages, indexed, groups, toDelete,
                   sortedMsgs, delErr>>
    /\ UNCHANGED <<cmdVars, config, calcVars, schedVars, labelVars>>

-----------------------------------------------------------------------------
(* Specification of the delete command                                     *)

MaxMessages == 4
MaxArgs == 2

\* scheduled messages the Slack API may hold: some share a post time or a
\* text, one has no id
RemoteMessages ==
    {[ID |-> "Q1", Text |-> "Hello", PostAt |-> 3 * 3600],
     [ID |-> "Q2", Text |-> "World", PostAt |-> 1 * 3600],
     [ID |-> "", Text |-> "Hello", PostAt |-> 2 * 3600],
     [ID |-> "Q4", Text |-> "Hello", PostAt |-> 1 * 3600],
     [ID |-> "Q5", Text |-> "Bye", PostAt |-> 2 * 3600]}

\* the listings: up to MaxMessages different messages in any order
Listings ==
    {ms \in UNION {[1..n -> RemoteMessages] : n \in 0..MaxMessages} :
        \A i, j \in 1..Len(ms) : i # j => ms[i] # ms[j]}

Tokens == {"1", "2", "A", "b", "A-1", "-1", "+2"}

ArgLists == UNION {[1..n -> Tokens] : n \in 0..MaxArgs}

InitDelete ==
    /\ SchedIdle
    /\ CmdIdle
    /\ index = 0 /\ index2 = 0 /\ label = "" /\ label2 = ""
    /\ parsed = NoParse
    /\ pc = "delete"
    /\ \/ deleteAll = FALSE /\ args \in ArgLists
       \/ deleteAll = TRUE /\ args \in {<<>>, <<"1">>}
    /\ messages \in Listings
    /\ indexed = <<>> /\ groups = <<>> /\ pos = 0
    /\ toDelete = <<>> /\ sortedMsgs = <<>> /\ deleted = 0
    /\ attempts = <<>> /\ delErr = ""

NextDelete ==
    \/ runDelete
    \/ buildIndexedMessages
    \/ groupMessages
    \/ runDeleteAll
    \/ runDeleteResolve
    \/ runDeleteSort
    \/ runDeleteLoop

DeleteSpec == InitDelete /\ [][NextDelete]_vars

-----------------------------------------------------------------------------
(* Properties of indexing and grouping                                     *)

\* the remote record an indexed message was built from
RecordOf(im) == [ID |-> im.SlackID, Text |-> im.Text, PostAt |-> im.PostAt]

\* the positions at which p is listed as a member of a group
Memberships(gs, p) ==
    {gk \in {<<g, k>> : g \in 1..Len(gs), k \in 1..MaxMessages + 1} :
        gk[2] <= Len(gs[gk[1]].Messages) /\ gs[gk[1]].Messages[gk[2]] = p}

\* C15: buildIndexedMessages returns the N listed records ordered by post
\* time ascending with the indices 1..N in that order, whatever the order
\* of the listing: every index of 1..N is used once and a record with a
\* smaller index never has a later post time.
C15_IndexedByPostTime ==
    [][(pc = "build" /\ pc' = "group") =>
          /\ Len(indexed') = Len(messages)
          /\ {indexed'[i].Index : i \in 1..Len(indexed')} = 1..Len(messages)
          /\ \A i \in 1..Len(indexed') : indexed'[i].Index = i
          /\ {RecordOf(indexed'[i]) : i \in 1..Len(indexed')} = Range(messages)
          /\ \A i, j \in 1..Len(indexed') :
                indexed'[i].Index < indexed'[j].Index
                    => indexed'[i].PostAt <= indexed'[j].PostAt]_vars

\* three records indexed in the order of their post times
C15_Witness ==
    /\ pc = "group"
    /\ Len(indexed) = 3
    /\ [i \in 1..3 |-> indexed[i].SlackID] = <<"Q2", "Q5", "Q1">>
    /\ [i \in 1..3 |-> indexed[i].Index] = <<1, 2, 3>>

\* C16: groupMessages partitions the indexed records by exact text: every
\* record is a member of exactly one group, the members of a group have its
\* text, no two groups share a text, groups come in the order their text
\* first appears, members keep the input order, the i-th group (from 0) is
\* labelled generateGroupLabel(i) and every member carries its group's
\* label.
C16_Partition ==
    pc # "group" =>
        /\ \A p \in 1..Len(indexed) : Cardinality(Memberships(groups, p)) = 1
        /\ \A g \in 1..Len(groups) :
              /\ Len(groups[g].Messages) >= 1
              /\ \A k \in 1..Len(groups[g].Messages) :
                    /\ groups[g].Messages[k] \in 1..Len(indexed)
                    /\ indexed[groups[g].Messages[k]].Text = groups[g].Text
                    /\ indexed[groups[g].Messages[k]].GroupLabel
                           = groups[g].Label
                    /\ k > 1 => groups[g].Messages[k - 1]
                                    < groups[g].Messages[k]
              /\ groups[g].Label = generateGroupLabel(g - 1)
              /\ groups[g].Label = charAt(upperLetters, g)
        /\ \A g, h \in 1..Len(groups) :
              g < h => /\ groups[g].Text # groups[h].Text
                       /\ groups[g].Label # groups[h].Label
                       /\ groups[g].Messages[1] < groups[h].Messages[1]

\* texts Hello, World, Hello, Hello grouped as A = 1, 3, 4 and B = 2
C16_Witness ==
    /\ pc = "resolve"
    /\ Len(groups) = 2
    /\ groups[1] = [Label |-> "A", Text |-> "Hello", Messages |-> <<1, 3, 4>>]
    /\ groups[2] = [Label |-> "B", Text |-> "World", Messages |-> <<2>>]
    /\ indexed[2].GroupLabel = "B" /\ indexed[4].GroupLabel = "A"

-----------------------------------------------------------------------------
(* Properties of the delete command                                        *)

\* a plain non-negative integer: decimal digits and nothing else
PlainInteger(t) == AllDigits(t)

\* an integer written with an optional sign
IntegerToken(t) ==
    \/ AllDigits(t)
    \/ Len(t) >= 2 /\ charAt(t, 1) \in {"+", "-"} /\ AllDigits(Suffix(t))

IntegerValue(t) ==
    IF charAt(t, 1) = "-" THEN 0 - DecimalValue(Suffix(t))
    ELSE IF charAt(t, 1) = "+" THEN DecimalValue(Suffix(t))
    ELSE DecimalValue(t)

ResolutionErrors == {ErrUnknownIndex, ErrUnknownGroup, ErrInvalidToken}

\* the token at which the resolution stopped
FailedToken == args[pos]

\* the records the map of targets holds
Targets == {toDelete[k] : k \in DOMAIN toDelete}

\* the record p is what the token t refers to
SelectedBy(t, p) ==
    IF IntegerToken(t)
    THEN indexed[p].Index = IntegerValue(t)
    ELSE \E g \in 1..Len(groups) :
            /\ groups[g].Label = ToUpper(t)
            /\ \E k \in 1..Len(groups[g].Messages) :
                  groups[g].Messages[k] = p

Selection(tokens) ==
    {p \in 1..Len(indexed) : \E k \in 1..Len(tokens) : SelectedBy(tokens[k], p)}

\* C17: without --all each token is classified in this order: a plain
\* non-negative integer is an index reference, and an unknown-index error
\* when no record has that index; otherwise a token of group-label shape
\* is a group reference, and an unknown-group error when no group has that
\* label; every other token (such as "A-1" or the signed "-1") is an
\* invalid-token error.
C17_TokenClasses ==
    /\ (pc = "done" /\ delErr \in ResolutionErrors) =>
          /\ delErr = ErrUnknownIndex <=>
                /\ PlainInteger(FailedToken)
                /\ \A p \in 1..Len(indexed) :
                      indexed[p].Index # DecimalValue(FailedToken)
          /\ delErr = ErrUnknownGroup <=>
                /\ ~PlainInteger(FailedToken)
                /\ WellFormedLabel(FailedToken)
                /\ \A g \in 1..Len(groups) :
                      groups[g].Label # ToUpper(FailedToken)
          /\ delErr = ErrInvalidToken <=>
                /\ ~PlainInteger(FailedToken)
                /\ ~WellFormedLabel(FailedToken)
    /\ (pc = "sort" /\ ~deleteAll) =>
          \A k \in 1..Len(args) :
              PlainInteger(args[k]) \/ WellFormedLabel(args[k])

\* C18: a group-label token, in either letter case, selects exactly the
\* members of the group with that label and an integer token exactly the
\* record with that index; the targets are the union of the selections of
\* all tokens and nothing else.
C18_TargetsAreSelections ==
    /\ (pc = "resolve" /\ ~deleteAll) =>
          Targets = Selection(SubSeq(args, 1, pos - 1))
    /\ (pc = "sort" /\ ~deleteAll) => Targets = Selection(args)
    /\ (pc \in {"loop", "done"} /\ sortedMsgs # <<>> /\ ~deleteAll) =>
          Range(sortedMsgs) = Selection(args)

\* "b" selects the three members of group B and "1" the record of group A
C18_Witness ==
    /\ pc = "sort"
    /\ args = <<"b", "1">>
    /\ Len(indexed) = 4
    /\ groups[2].Messages = <<2, 3, 4>>
    /\ Targets = {1, 2, 3, 4}

\* C19: the targets of one invocation are deduplicated: a record reached
\* through several tokens appears once, and DeleteScheduledMessage is
\* called at most once for a record.
C19_Deduplicated ==
    /\ \A j, k \in 1..Len(sortedMsgs) :
          j < k => sortedMsgs[j] # sortedMsgs[k]
    /\ \A j, k \in 1..Len(attempts) :
          j < k => /\ attempts[j].Index # attempts[k].Index
                   /\ attempts[j].SlackID # attempts[k].SlackID

\* record 1 is named by its group and by its index, and deleted once
C19_Witness ==
    /\ pc = "done"
    /\ args = <<"A", "1">>
    /\ Len(sortedMsgs) >= 2
    /\ Len(attempts) = Len(sortedMsgs)
    /\ attempts[1].Index = 1

\* the targets handled so far that have a remote id
Attempted(n) ==
    SelectSeq(SubSeq(sortedMsgs, 1, n), LAMBDA p : indexed[p].SlackID # "")

\* C20: a failed deletion does not abort the loop: every target with a
\* remote id is attempted exactly once whatever the earlier outcomes, the
\* count of deleted messages is the number of successes, and the command
\* returns success.
C20_LoopAttemptsAll ==
    /\ pc = "loop" =>
          [k \in 1..Len(attempts) |-> attempts[k].Index]
              = [k \in 1..Len(Attempted(pos - 1)) |->
                    indexed[Attempted(pos - 1)[k]].Index]
    /\ (pc = "done" /\ sortedMsgs # <<>>) =>
          /\ delErr = ""
          /\ [k \in 1..Len(attempts) |-> attempts[k].Index]
                = [k \in 1..Len(Attempted(Len(sortedMsgs))) |->
                      indexed[Attempted(Len(sortedMsgs))[k]].Index]
          /\ deleted = Cardinality({k \in 1..Len(attempts) : attempts[k].ok})

\* the first deletion fails, the later ones are still attempted, the record
\* without a remote id is skipped
C20_Witness ==
    /\ pc = "done"
    /\ Len(sortedMsgs) = 4
    /\ Len(attempts) = 3
    /\ ~attempts[1].ok /\ attempts[2].ok /\ ~attempts[3].ok
    /\ deleted = 1
    /\ delErr = ""

(***************************************************************************)
(* Properties of a failed submission                                       *)

\* the submit loop stopped at times[idx] because its submission failed
SubmitFailed == pc = "done" /\ schedErr = "failed to schedule message"

\* C22: a failure to submit one occurrence does not abort the batch: every
\* later occurrence inside the window is still submitted, so at the return
\* each in-window occurrence after the failed one is on the remote service.
C22_ContinuesAfterFailure ==
    SubmitFailed =>
        \A k \in (idx + 1)..Len(times) :
            InWindow(times[k]) => times[k] \in Range(remote)

-----------------------------------------------------------------------------
(* runSchedule, the schedule command                                       *)

ValidIntervals ==
    {IntervalNone, IntervalDaily, IntervalWeekly, IntervalMonthly}
IsValid(i) == i \in ValidIntervals

ErrInterval       == "invalid interval"
ErrNeedsInterval  == "to create a recurring schedule, you must specify -i"
ErrDateFormat     == "invalid date format"
ErrTimeFormat     == "invalid time format"
ErrEndDateFormat  == "invalid end date format"
ErrEndBeforeStart == "end date must be after start date"
ErrCredentials    == "credentials"
ErrSchedulingFailed == "scheduling failed: "

\* time.Parse("15:04", s) succeeds
clockParses(s) == parseDateTime("2006-01-02", s).ok

\* the checks runSchedule makes on the flags before it builds the config, as
\* the error it returns ("" when the flags pass); the day names of the
\* requests are those ParseDaysOfWeek accepts
validateFlags(c) ==
    IF ~IsValid(c.Interval) THEN ErrInterval
    ELSE IF c.Interval = IntervalNone
            /\ (c.RepeatCount > 1 \/ c.EndDate # "")
    THEN ErrNeedsInterval
    ELSE IF ~parseDate(c.StartDate).ok THEN ErrDateFormat
    ELSE IF ~clockParses(c.SendTime) THEN ErrTimeFormat
    ELSE IF c.EndDate # "" /\ ~parseDate(c.EndDate).ok THEN ErrEndDateFormat
    ELSE IF c.EndDate # ""
            /\ Before(parseDate(c.EndDate).t, parseDate(c.StartDate).t)
    THEN ErrEndBeforeStart
    ELSE ""

\* runSchedule up to NewScheduler: the flag checks, then the credentials are
\* loaded and validated (either may fail), then the scheduler takes over
runSchedule ==
    /\ pc = "run"
    /\ \E e \in {validateFlags(config)} :
         IF e # ""
         THEN /\ report' = [err |-> e, scheduled |-> <<>>]
              /\ pc' = "reported"
         ELSE \/ /\ report' = [err |-> ErrCredentials, scheduled |-> <<>>]
                 /\ pc' = "reported"
              \/ /\ pc' = "call"
                 /\ UNCHANGED report
    /\ UNCHANGED <<config, calcVars, schedVars, labelVars, deleteVars,
                   listChannel, listed>>

\* what runSchedule returns and prints once the preview (error e) and
\* Schedule (error se, identifiers ids) have returned: the preview's error
\* as it is, Schedule's error wrapped, or nil and the success line with the
\* number of identifiers
reportOf(e, se, ids) ==
    IF e # "" THEN [err |-> e, scheduled |-> <<>>]
    ELSE IF se # "" THEN [err |-> ErrSchedulingFailed \o se,
                          scheduled |-> <<>>]
    ELSE [err |-> "", scheduled |-> <<Len(ids)>>]

\* The tail of runSchedule: Schedule has returned
runScheduleReport ==
    /\ pc = "done"
    /\ report' = reportOf(err, schedErr, scheduledIDs)
    /\ pc' = "reported"
    /\ UNCHANGED <<config, calcVars, schedVars, labelVars, deleteVars,
                   listChannel, listed>>

\* the schedule requests and one whose send time is not HH:MM
RunRequests ==
    ScheduleRequests
    \cup {Config("2025-01-13", "9:00 AM", IntervalDaily, 2, "", <<>>)}

InitRun ==
    /\ config \in RunRequests
    /\ pc = "run"
    /\ start = 0 /\ endDate = <<>> /\ current = 0 /\ count = 0
    /\ times = <<>> /\ err = ""
    /\ now = <<>> /\ idx = 0 /\ scheduledIDs = <<>> /\ remote = <<>>
    /\ schedErr = "" /\ output = <<>>
    /\ AddrIdle

NextRun ==
    \/ runSchedule
    \/ CalculateScheduleTimes
    \/ calculateDailyTimes
    \/ calculateWeeklyTimes
    \/ calculateSpecificDaysTimes
    \/ calculateMonthlyTimes
    \/ ScheduleResolve
    \/ ScheduleSubmit
    \/ ScheduleVerify
    \/ runScheduleReport

RunSpec == InitRun /\ [][NextRun]_vars

\* the occurrences Schedule submitted before its loop stopped at times[idx]
SubmittedBefore(n) == SelectSeq(SubSeq(times, 1, n - 1), InWindow)

PositionIn(seq, x) == CHOOSE i \in 1..Len(seq) : seq[i] = x

\* C23: buildIndexedMessages sorts stably: two records with the same post
\* time keep, in the sorted slice and so in their indices, the order they
\* had in the listing it was given.
C23_StableSort ==
    [][(pc = "build" /\ pc' = "group") =>
          \A i, j \in 1..Len(messages') :
              (i < j /\ messages'[i].PostAt = messages'[j].PostAt) =>
                  PositionIn(messages, messages'[i])
                      < PositionIn(messages, messages'[j])]_vars

\* C24: parseGroupLabel is the exact inverse of generateGroupLabel: whenever
\* it accepts a typed string with the result i, generateGroupLabel(i) is that
\* string upper-cased, so no two spellings of one ordinal are both accepted.
C24_ExactInverse ==
    (pc = "parsed" /\ parsed.ok) =>
        generateGroupLabel(parsed.index) = ToUpper(label)

(***************************************************************************)
(* Further properties of CalculateScheduleTimes                            *)

\* C25: without an end date no occurrence of a recurring request is later
\* than the anchor plus the safety ceiling, 10 years for daily and monthly
\* and 5 years for weekly with or without a weekday filter, however large
\* the repeat count is: the ceiling cuts the sequence short.
C25_NeverPastCeiling ==
    (Accepted /\ NoEndDate /\ Recurring) =>
        LET ceiling == YearsAfter(start, CeilingYears)
        IN  \A k \in 1..Len(times) : times[k] <= ceiling

\* a filtered weekly request whose count the ceiling cut short
C25_Witness ==
    /\ Accepted /\ NoEndDate
    /\ config.Interval = IntervalWeekly /\ ~Unfiltered
    /\ config.RepeatCount = HugeCount
    /\ Len(times) > 0
    /\ Len(times) < config.RepeatCount
    /\ DaysAfter(times[Len(times)], 7) > YearsAfter(start, CeilingYears)

\* a monthly request with a count and no end date whose anchor day-of-month
\* the month after the anchor's does not have
RollCase ==
    /\ Accepted /\ NoEndDate
    /\ config.Interval = IntervalMonthly
    /\ config.RepeatCount > 0
    /\ config.StartDate = "2025-01-31"

\* from the second occurrence on: the 3rd of consecutive months, March first,
\* at the anchor's time of day
RolledForward ==
    \A k \in 2..Len(times) :
        /\ MonthIndex(times[k]) = MonthIndex(start) + k
        /\ Day(times[k]) = 3
        /\ times[k] % (24 * 60 * 60) = start % (24 * 60 * 60)

\* C26 as stated: after 31 January of a non-leap year the monthly step rolls
\* forward to 3 March, every later occurrence is computed from the previous
\* one and so stays on the 3rd (3 April, ...), and a count of N still gives
\* exactly N occurrences.
C26_Original ==
    RollCase =>
        /\ times[1] = start
        /\ RolledForward
        /\ Len(times) = config.RepeatCount

\* C26 amended: the roll forward and the rolled day-of-month as stated, and N
\* occurrences unless the safety ceiling of the anchor plus 10 years cuts the
\* sequence short: then the occurrence after the last one returned would
\* have been later than the ceiling.
C26_RollForward ==
    RollCase =>
        /\ times[1] = start
        /\ RolledForward
        /\ Len(times) <= config.RepeatCount
        /\ Len(times) < config.RepeatCount =>
              LET last == times[Len(times)]
              IN  Date(Year(last), Month(last) + 1, Day(last),
                       Hour(last), Minute(last), Second(last))
                      > YearsAfter(start, 10)

\* four occurrences from 31 January 2025: 3 March, 3 April, 3 May follow
C26_Witness ==
    /\ RollCase
    /\ config.RepeatCount = 4
    /\ Len(times) = 4
    /\ formatDate(times[2]) = "2025-03-03"
    /\ formatDate(times[3]) = "2025-04-03"
    /\ formatDate(times[4]) = "2025-05-03"

\* the anchor of the request: its start date at its send time
Anchor == parseDateTime(config.StartDate, config.SendTime).t

\* C29: for every request CalculateScheduleTimes accepts, the returned
\* sequence is strictly increasing in time, hence free of duplicates, and
\* its first element is not earlier than the anchor date and time.
C29_StrictlyIncreasing ==
    Accepted =>
        /\ \A k \in 1..(Len(times) - 1) : times[k] < times[k + 1]
        /\ Len(times) > 0 => times[1] >= Anchor

\* a filtered weekly sequence that starts after its anchor, which is a
\* Friday outside the filter
C29_Witness ==
    /\ Accepted
    /\ config.Interval = IntervalWeekly
    /\ config.Days = <<"tuesday", "thursday">>
    /\ config.StartDate = "2025-01-31"
    /\ Len(times) >= 3
    /\ times[1] > Anchor

\* a recurring request whose end date parses and is a day before the anchor's
EndBeforeAnchor ==
    /\ Recurring
    /\ parseDateTime(config.StartDate, config.SendTime).ok
    /\ config.EndDate # ""
    /\ parseDate(config.EndDate).ok
    /\ DayOf(parseDate(config.EndDate).t) < DayOf(parseDate(config.StartDate).t)

\* C30: a daily, weekly or monthly request whose end date is earlier than
\* the anchor date gets the empty sequence and no error from
\* CalculateScheduleTimes, whatever its repeat count, and Schedule then
\* submits nothing; the fallback to one occurrence is for a request with no
\* end date and no positive count.
C30_EmptyBeforeAnchor ==
    /\ EndBeforeAnchor =>
          /\ times = <<>> /\ err = ""
          /\ remote = <<>> /\ scheduledIDs = <<>>
          /\ schedErr \in {"", "channel not found"}
    /\ (Accepted /\ Recurring /\ NoEndDate /\ config.RepeatCount <= 0)
          => Len(times) = 1

\* Schedule ran to its end for such a request with a count of 3
C30_Witness ==
    /\ EndBeforeAnchor
    /\ config.RepeatCount = 3
    /\ pc = "done"
    /\ now # <<>>
    /\ schedErr = ""
    /\ remote = <<>>

(***************************************************************************)
(* Further properties of runDelete                                         *)

\* C28: token resolution is all or nothing: when a token fails to resolve
\* (unknown index, unknown group or invalid token) runDelete has returned
\* with that error before its deletion loop, and DeleteScheduledMessage has
\* been called for no record, not even for those the earlier tokens selected.
C28_AllOrNothing ==
    delErr \in ResolutionErrors =>
        /\ pc = "done"
        /\ attempts = <<>>
        /\ sortedMsgs = <<>>
        /\ deleted = 0

\* the second token failed after the first had selected a record
C28_Witness ==
    /\ pc = "done"
    /\ delErr \in ResolutionErrors
    /\ pos = 2
    /\ DOMAIN toDelete # {}
    /\ attempts = <<>>

-----------------------------------------------------------------------------
(* The list command (runList) followed by the delete command               *)
(*                                                                         *)
(* Nothing is kept between the two invocations but what the user read: in  *)
(* this specification messages holds, from the start, what the Slack API   *)
(* returns for all channels, and it does not change.                       *)

\* runList: the channel is resolved when --channel is given, the messages of
\* that channel (or of all channels) are fetched, indexed and grouped, and
\* the groups are printed with the Index of each member; any of the calls
\* to Slack may fail, and an empty listing prints nothing to refer to
runList ==
    /\ pc = "list"
    /\ \/ pc' = "done" /\ UNCHANGED listed
       \/ \E fetched \in {SelectSeq(messages,
                            LAMBDA m : listChannel = ""
                                       \/ m.Channel = listChannel)} :
            IF Len(fetched) = 0
            THEN pc' = "done" /\ UNCHANGED listed
            ELSE \E sorted \in sortSlice(fetched) :
                 \E gs \in {groupsOf(indexedOf(sorted))} :
                    /\ listed' = [indexed |-> labelledBy(indexedOf(sorted), gs),
                                  groups  |-> gs]
                    /\ pc' = "listed"
    /\ UNCHANGED <<report, listChannel, deleteVars, labelVars>>
    /\ UNCHANGED <<config, calcVars, schedVars>>

\* what the listing shows to refer to a message or a group: each Index in
\* decimal and each group label
Displayed ==
    {itoa(listed.indexed[p].Index) : p \in 1..Len(listed.indexed)}
    \cup {listed.groups[g].Label : g \in 1..Len(listed.groups)}

\* The user invokes the delete command with one of the displayed references
deleteDisplayed ==
    /\ pc = "listed"
    /\ \E t \in Displayed : args' = <<t>>
    /\ pc' = "delete"
    /\ UNCHANGED <<deleteAll, messages, indexed, groups, pos, toDelete,
                   sortedMsgs, deleted, attempts, delErr>>
    /\ UNCHANGED <<cmdVars, config, calcVars, schedVars, labelVars>>

\* scheduled messages of two channels, with different post times
ChannelMessages ==
    {[ID |-> "Q1", Text |-> "Hello", PostAt |-> 3 * 3600, Channel |-> "C1"],
     [ID |-> "Q2", Text |-> "World", PostAt |-> 1 * 3600, Channel |-> "C2"],
     [ID |-> "Q3", Text |-> "Hello", PostAt |-> 2 * 3600, Channel |-> "C2"],
     [ID |-> "Q4", Text |-> "Bye", PostAt |-> 4 * 3600, Channel |-> "C1"]}

\* what the API may hold: up to MaxMessages different messages in any order
Stores ==
    {ms \in UNION {[1..n -> ChannelMessages] : n \in 0..MaxMessages} :
        \A i, j \in 1..Len(ms) : i # j => ms[i] # ms[j]}

ListChannels == {"", "C1", "C2"}

InitList ==
    /\ SchedIdle
    /\ index = 0 /\ index2 = 0 /\ label = "" /\ label2 = ""
    /\ parsed = NoParse
    /\ report = NoReport /\ listed = NoListing
    /\ listChannel \in ListChannels
    /\ pc = "list"
    /\ deleteAll = FALSE /\ args = <<>>
    /\ messages \in Stores
    /\ indexed = <<>> /\ groups = <<>> /\ pos = 0
    /\ toDelete = <<>> /\ sortedMsgs = <<>> /\ deleted = 0
    /\ attempts = <<>> /\ delErr = ""

NextList ==
    \/ runList
    \/ deleteDisplayed
    \/ runDelete
    \/ buildIndexedMessages
    \/ groupMessages
    \/ runDeleteResolve
    \/ runDeleteSort
    \/ runDeleteLoop

ListSpec == InitList /\ [][NextList]_vars

\* the remote ids of the records the listing displayed under the reference t
DisplayedUnder(t) ==
    {listed.indexed[p].SlackID :
        p \in {q \in 1..Len(listed.indexed) :
                  \/ itoa(listed.indexed[q].Index) = t
                  \/ listed.indexed[q].GroupLabel = t}}

\* C27: when the remote records do not change between a list invocation and
\* the delete invocation that follows, every index and every group label the
\* listing displayed resolves in delete, and to the same remote records,
\* also when the listing was made with a channel filter.
C27_ListThenDelete ==
    (listed # NoListing /\ args # <<>>) =>
        /\ delErr \notin ResolutionErrors
        /\ pc = "sort" =>
              {indexed[p].SlackID : p \in Targets} = DisplayedUnder(args[1])

====
